---- MODULE Spec2Model ----
(***************************************************************************)
(* Frame lifecycle and presentation-surface state machine of learn-vulkano *)
(* (src/src/app.rs, src/src/framework.rs, src/src/allocator.rs,            *)
(* src/src/renderer.rs).                                                   *)
(*                                                                         *)
(* The program is a single-threaded winit ApplicationHandler.  Every       *)
(* callback (resumed, window_event, about_to_wait) is one action.  The     *)
(* window system and the graphics device are the environment: the window   *)
(* can be resized at any time (the drawable extent changes at once, the    *)
(* Resized event is queued and delivered later), a redraw or a close can   *)
(* be requested.  `log` is the trace of device calls made by the callback  *)
(* that ran in the step leading to the state, `last` is what that callback *)
(* saw when it started; both are empty after an environment step.          *)
(***************************************************************************)
EXTENDS Integers, Sequences, FiniteSets, TLC

\* ------------------------------------------------------------------ bounds
MaxWidth == 2
MaxPending == 2
MaxMinImageCount == 1

Widths == 0..MaxWidth
Heights == 0..1
\* Extents a window can have: every width at height 1, and the zero extents
\* 0x0, 0x1 and 1x0.
Extents == {e \in Widths \X Heights : e[2] = 1 \/ e[1] <= 1}
IsZeroExtent(e) == e[1] = 0 \/ e[2] = 0
NonZeroExtents == {e \in Extents : ~IsZeroExtent(e)}

\* ------------------------------------------------------ device properties
\* Surface formats a physical device may report, as (format, color space).
SRGB == [format |-> "B8G8R8A8_SRGB", color_space |-> "SrgbNonLinear"]
UNORM == [format |-> "B8G8R8A8_UNORM", color_space |-> "SrgbNonLinear"]
SurfaceFormatLists == {<<SRGB>>, <<UNORM, SRGB>>, <<UNORM>>, <<>>}

\* Surface capabilities: max_image_count = 0 stands for None (no maximum).
SurfaceCapabilities ==
    {[min_image_count |-> mn, max_image_count |-> mx] :
        mn \in 1..MaxMinImageCount, mx \in 0..(MaxMinImageCount + 1)}
    \ {c \in [min_image_count : 1..MaxMinImageCount,
              max_image_count : 0..(MaxMinImageCount + 1)] :
          c.max_image_count # 0 /\ c.max_image_count < c.min_image_count}

\* --------------------------------------------------------------- geometry
vertices == <<"v0", "v1", "v2", "v3">>
\* Variant: the indices of one triangle only.
indices_one_triangle == <<0, 1, 2>>

indices == <<0, 1, 2, 2, 1, 3>>

VARIABLES
    started,            \* resumed has run
    status,             \* "Running", "Panicked", "Blocked" or "Exited"
    app_some,           \* OptionApp.0 is Some
    framework,          \* App.framework: swapchain, images, image views
    allocator,          \* App.allocator: the two subbuffer allocators
    renderer,           \* App.renderer: the render pass colour format
    minimized,          \* App.minimized
    drawable,           \* current drawable extent of the window
    pending,            \* window events emitted and not yet delivered
    redraw_requested,   \* a RedrawRequested is due (request_redraw flag)
    acquired,           \* image indices of the swapchain held by the app
    last_resized,       \* the kind of the Resized event handled last
    last,               \* the callback of the last step and what it saw
    log,                \* device calls made by the callback of the last step
    gpu_order,          \* completion order of the last frame's GPU work
    in_flight,          \* GPU work submitted and not known to be complete
    unpresented,        \* images of the swapchain recorded against and not
                        \* presented since
    restored            \* the Resized event handled last had a nonzero extent
                        \* and was handled while minimized, and no
                        \* RedrawRequested has been handled since

vars == <<started, status, app_some, framework, allocator, renderer, minimized,
          drawable, pending, redraw_requested, acquired, last_resized, last, log,
          gpu_order, in_flight, unpresented, restored>>

\* ------------------------------------------------------------- framework
Max(a, b) == IF a >= b THEN a ELSE b

\* Framework::select_swapchain_format: the first B8G8R8A8_SRGB/SrgbNonLinear
\* entry, else the first entry, else none (<<>>).
select_swapchain_format(formats) ==
    IF \E i \in 1..Len(formats) : formats[i] = SRGB THEN <<SRGB>>
    ELSE IF formats = <<>> THEN <<>>
    ELSE <<formats[1]>>

\* Framework::new, the image count asked of the first swapchain.
image_count(caps) ==
    IF caps.max_image_count # 0
    THEN Max(caps.max_image_count, caps.min_image_count + 1)
    ELSE caps.min_image_count + 1

\* Framework::new_swapchain: the creation parameters the code fills in.
new_swapchain_create_info(format, present_mode, extent, count) ==
    [image_format |-> format.format,
     image_color_space |-> format.color_space,
     present_mode |-> present_mode,
     image_extent |-> extent,
     min_image_count |-> count,
     image_usage |-> "COLOR_ATTACHMENT"]

\* Swapchain::new / Swapchain::recreate accept the parameters only inside the
\* surface capabilities; the code panics (expect) otherwise.
SwapchainCreateValid(caps, create_info) ==
    /\ ~IsZeroExtent(create_info.image_extent)
    /\ create_info.min_image_count >= caps.min_image_count
    /\ caps.max_image_count # 0
         => create_info.min_image_count <= caps.max_image_count

\* The swapchain object and its images as the device returns them.
SwapchainImages(id, create_info) ==
    [i \in 1..create_info.min_image_count |->
        [swapchain |-> id, index |-> i - 1,
         format |-> create_info.image_format,
         extent |-> <<create_info.image_extent[1],
                      create_info.image_extent[2], 1>>]]

SwapchainObject(id, create_info) == [id |-> id, create_info |-> create_info]

\* Variant: the views are collected in the reverse order of the images.
new_swapchain_image_views_reversed(format, swapchain_images) ==
    [i \in 1..Len(swapchain_images) |->
        [image |-> swapchain_images[Len(swapchain_images) + 1 - i],
         format |-> format]]

\* Framework::new_swapchain_image_views: one view per image, in order.
new_swapchain_image_views(format, swapchain_images) ==
    [i \in 1..Len(swapchain_images) |->
        [image |-> swapchain_images[i], format |-> format]]

FrameworkOf(id, create_info) ==
    LET images == SwapchainImages(id, create_info)
    IN [swapchain |-> SwapchainObject(id, create_info),
        swapchain_images |-> images,
        swapchain_image_views |->
            new_swapchain_image_views(create_info.image_format, images)]

\* The value the framework fields hold while no App exists (never read).
NoFramework ==
    [swapchain |-> SwapchainObject(0,
        new_swapchain_create_info(SRGB, "Fifo", <<0, 0>>, 0)),
     swapchain_images |-> <<>>,
     swapchain_image_views |-> <<>>]

\* The handle of the swapchain that replaces swapchain `id`.  Only a swapchain
\* and the one it replaces are ever alive together, so two handles are enough
\* to tell every new swapchain from the one it retires.
NewHandle(id) == IF id = 1 THEN 2 ELSE 1

\* Variant: gives up only when both dimensions are zero.
recreate_swapchain_both_zero(fw, extent) ==
    IF extent[1] = 0 /\ extent[2] = 0
    THEN [ret |-> FALSE, framework |-> fw]
    ELSE LET create_info ==
                 [fw.swapchain.create_info EXCEPT !.image_extent = extent]
         IN [ret |-> TRUE,
             framework |-> FrameworkOf(NewHandle(fw.swapchain.id),
                                       create_info)]

\* Variant: builds the creation parameters from the defaults instead of the
\* parameters of the swapchain it replaces.
recreate_swapchain_default_info(fw, extent) ==
    IF extent[1] = 0 \/ extent[2] = 0
    THEN [ret |-> FALSE, framework |-> fw]
    ELSE LET create_info ==
                 [fw.swapchain.create_info EXCEPT !.image_extent = extent,
                                                  !.image_format = "UNDEFINED"]
         IN [ret |-> TRUE,
             framework |-> FrameworkOf(NewHandle(fw.swapchain.id),
                                       create_info)]

\* Variant: recreates with the extent of the swapchain it replaces.
recreate_swapchain_old_extent(fw, extent) ==
    IF extent[1] = 0 \/ extent[2] = 0
    THEN [ret |-> FALSE, framework |-> fw]
    ELSE [ret |-> TRUE,
          framework |-> FrameworkOf(NewHandle(fw.swapchain.id),
                                    fw.swapchain.create_info)]

\* Framework::recreate_swapchain.  `extent` is capabilities.current_extent.
recreate_swapchain(fw, extent) ==
    IF extent[1] = 0 \/ extent[2] = 0
    THEN [ret |-> FALSE, framework |-> fw]
    ELSE LET create_info ==
                 [fw.swapchain.create_info EXCEPT !.image_extent = extent]
         IN [ret |-> TRUE,
             framework |-> FrameworkOf(NewHandle(fw.swapchain.id),
                                       create_info)]

\* What vulkano's acquire_next_image(swapchain, None) can answer.  Whether or
\* not the swapchain still matches the surface, the device may hand out an
\* image, with or without the report that it is suboptimal, may report the
\* surface out of date, and may be lost.  With no image left the call never
\* returns (the timeout is None) unless it fails.  The images of a swapchain
\* are interchangeable: the device is taken to hand out the free image of
\* lowest index.
DeviceAcquire(swapchain, held) ==
    LET free == {i \in 0..(swapchain.create_info.min_image_count - 1) :
                    i \notin held}
        next == CHOOSE i \in free : \A j \in free : i <= j
        err(e) == [res |-> e, image_index |-> 0, suboptimal |-> FALSE]
        ok(flag) == [res |-> "Success", image_index |-> next,
                     suboptimal |-> flag]
    IN {err("DeviceLost"), err("OutOfDate")} \cup
       (IF free = {} THEN {err("Blocked")} ELSE {ok(TRUE), ok(FALSE)})

NoneInfo == [some |-> FALSE]
SomeInfo(image_index, image_available) ==
    [some |-> TRUE, image_index |-> image_index,
     image_available |-> image_available]

\* Variant: hands out the image of a suboptimal acquisition.
acquire_next_image_keep_suboptimal(swapchain, out) ==
    IF out.res = "Blocked"
    THEN [panic |-> FALSE, blocked |-> TRUE, value |-> NoneInfo]
    ELSE IF out.res # "Success"
    THEN [panic |-> TRUE, blocked |-> FALSE, value |-> NoneInfo]
    ELSE [panic |-> FALSE, blocked |-> FALSE,
          value |-> SomeInfo(out.image_index,
                       [kind |-> "acquire", swapchain |-> swapchain.id,
                        image_index |-> out.image_index])]

\* Variant: answers None to an out-of-date surface as to a suboptimal one.
acquire_next_image_absorb_errors(swapchain, out) ==
    IF out.res = "Blocked"
    THEN [panic |-> FALSE, blocked |-> TRUE, value |-> NoneInfo]
    ELSE IF out.res # "Success" \/ out.suboptimal
    THEN [panic |-> FALSE, blocked |-> FALSE, value |-> NoneInfo]
    ELSE [panic |-> FALSE, blocked |-> FALSE,
          value |-> SomeInfo(out.image_index,
                       [kind |-> "acquire", swapchain |-> swapchain.id,
                        image_index |-> out.image_index])]

\* Framework::acquire_next_image on the device's answer `out`.
acquire_next_image(swapchain, out) ==
    IF out.res = "Blocked"
    THEN [panic |-> FALSE, blocked |-> TRUE, value |-> NoneInfo]
    ELSE IF out.res # "Success"
    THEN [panic |-> TRUE, blocked |-> FALSE, value |-> NoneInfo]
    ELSE IF out.suboptimal
    THEN [panic |-> FALSE, blocked |-> FALSE, value |-> NoneInfo]
    ELSE [panic |-> FALSE, blocked |-> FALSE,
          value |-> SomeInfo(out.image_index,
                       [kind |-> "acquire", swapchain |-> swapchain.id,
                        image_index |-> out.image_index])]

\* Framework::execute_command_buffer: before.then_execute(queue, commands).
execute_command_buffer(before, command_buffer) ==
    [kind |-> "execute", before |-> before, command_buffer |-> command_buffer]

\* Variant: presents on the swapchain handle that is not the current one.
present_image_retired(fw, before, image_index) ==
    [kind |-> "present", before |-> before,
     swapchain |-> NewHandle(fw.swapchain.id), image_index |-> image_index]

\* Variant: presents the image after the one asked for.
present_image_other(fw, before, image_index) ==
    [kind |-> "present", before |-> before,
     swapchain |-> fw.swapchain.id,
     image_index |-> (image_index + 1) % Len(fw.swapchain_images)]

\* Variant: presents without waiting for `before`.
present_image_unchained(fw, before, image_index) ==
    [kind |-> "present", before |-> [kind |-> "now"],
     swapchain |-> fw.swapchain.id, image_index |-> image_index]

\* Framework::present_image: before.then_swapchain_present(queue, info).
present_image(fw, before, image_index) ==
    [kind |-> "present", before |-> before,
     swapchain |-> fw.swapchain.id, image_index |-> image_index]

\* What the device can answer to a submission or to a wait on a fence.
DeviceSubmit == {"Success", "DeviceLost"}

\* GpuFuture::then_signal_semaphore_and_flush().expect(..) on the device's
\* answer `out`: the semaphore future, or the panic of the expect.
then_signal_semaphore_and_flush(before, out) ==
    [panic |-> out # "Success",
     future |-> [kind |-> "semaphore", before |-> before]]

\* What the device can answer to the submission of a presentation: it may
\* also refuse it because the surface is out of date.
DevicePresent == DeviceSubmit \cup {"OutOfDate"}

\* PresentFuture::then_signal_fence_and_flush().expect(..) on the device's
\* answer `out`: the fence future, or the panic of the expect.
then_signal_fence_and_flush(before, out) ==
    [panic |-> out # "Success",
     future |-> [kind |-> "fence", before |-> before]]

\* ------------------------------------------------------------- allocator
\* A SubbufferAllocator as SubbufferAllocator::new leaves it (the create info
\* is the default but for usage and memory type: arena_size is 0): the size
\* of its arenas, the arena it allocates from (none is held while arena_size
\* is 0), and where the free part of that arena starts.  Sizes and offsets
\* are counted in elements.
NewSubbufferAllocator == [arena_size |-> 0, arena |-> 0, free_start |-> 0]

\* Allocator::new: the two subbuffer allocators.
NewAllocator ==
    [vertex_buffer_allocator |-> NewSubbufferAllocator,
     index_buffer_allocator |-> NewSubbufferAllocator]

\* The value the allocator holds while no App exists (never read).
NoAllocator == NewAllocator

\* The arenas an allocator can draw on.
Arenas == 0..2

\* SubbufferAllocator::allocate_slice(n) on the allocator `sub` while the
\* regions `allocated` it handed out are alive.  The allocator bumps through
\* its arena: the slice starts where the free part starts.  When the slice
\* does not fit, the allocator gives its arena up and takes one that holds no
\* region still alive (the arena given up, if it holds none: arenas are
\* interchangeable, the idle one of lowest number is taken) and starts at its
\* beginning; an arena smaller than the request is first resized to twice
\* the request.  The call panics for n = 0.
allocate_slice(sub, allocated, n) ==
    LET fits == sub.arena_size > 0 /\ sub.free_start + n <= sub.arena_size
        size == IF sub.arena_size < n THEN 2 * n ELSE sub.arena_size
        idle == {a \in Arenas : \A r \in allocated : r.arena # a}
        next == CHOOSE a \in idle : \A b \in idle : a <= b
    IN IF n = 0
       THEN [panic |-> TRUE, arena |-> sub.arena, offset |-> 0, len |-> 0,
             state |-> sub]
       ELSE IF fits
       THEN [panic |-> FALSE, arena |-> sub.arena, offset |-> sub.free_start,
             len |-> n, state |-> [sub EXCEPT !.free_start = @ + n]]
       ELSE [panic |-> FALSE, arena |-> next, offset |-> 0, len |-> n,
             state |-> [arena_size |-> size, arena |-> next,
                        free_start |-> n]]

\* The regions of the allocator named `name` among the buffers `live`.
RegionsOf(name, live) ==
    {[arena |-> b.arena, offset |-> b.offset, len |-> b.len] :
        b \in {x \in live : x.allocator = name}}

\* Variant: the vertex buffer is returned without the input copied into it.
alloc_vertex_buffer_unwritten(al, live, vs) ==
    LET slice == allocate_slice(al.vertex_buffer_allocator,
                     RegionsOf("vertex_buffer_allocator", live), Len(vs))
    IN [panic |-> slice.panic,
        allocator |-> [al EXCEPT !.vertex_buffer_allocator = slice.state],
        buffer |-> [usage |-> "VERTEX_BUFFER",
                    allocator |-> "vertex_buffer_allocator",
                    arena |-> slice.arena,
                    offset |-> slice.offset, len |-> slice.len,
                    contents |-> [i \in 1..slice.len |-> "undefined"]]]

\* Allocator::alloc_vertex_buffer / alloc_index_buffer on the allocator `al`,
\* called while the buffers `live` handed out earlier are alive: a slice of
\* the input's length from the allocator of that kind of buffer, holding a
\* copy of the input (clone_from_slice).  `panic` is the failure of the expect
\* on allocate_slice, in which case no buffer is returned; `allocator` is the
\* allocator after the call.
alloc_vertex_buffer(al, live, vs) ==
    LET slice == allocate_slice(al.vertex_buffer_allocator,
                     RegionsOf("vertex_buffer_allocator", live), Len(vs))
    IN [panic |-> slice.panic,
        allocator |-> [al EXCEPT !.vertex_buffer_allocator = slice.state],
        buffer |-> [usage |-> "VERTEX_BUFFER",
                    allocator |-> "vertex_buffer_allocator",
                    arena |-> slice.arena,
                    offset |-> slice.offset, len |-> slice.len,
                    contents |-> [i \in 1..slice.len |-> vs[i]]]]
alloc_index_buffer(al, live, is) ==
    LET slice == allocate_slice(al.index_buffer_allocator,
                     RegionsOf("index_buffer_allocator", live), Len(is))
    IN [panic |-> slice.panic,
        allocator |-> [al EXCEPT !.index_buffer_allocator = slice.state],
        buffer |-> [usage |-> "INDEX_BUFFER",
                    allocator |-> "index_buffer_allocator",
                    arena |-> slice.arena,
                    offset |-> slice.offset, len |-> slice.len,
                    contents |-> [i \in 1..slice.len |-> is[i]]]]

\* -------------------------------------------------------------- renderer
\* Variant: the draw is recorded before the buffers are bound.
record_command_buffer_draw_first(rdr, vertex_buffer, index_buffer, index_count, output) ==
    LET render_area_extent == <<output.image.extent[1], output.image.extent[2]>>
        layers == output.image.extent[3]
    IN [usage |-> "OneTimeSubmit",
        output |-> output,
        commands |-> <<
          [cmd |-> "begin_render_pass",
           render_pass_format |-> rdr.render_pass_format,
           attachments |-> <<output>>, layers |-> layers,
           render_area_extent |-> render_area_extent,
           clear_values |-> <<<<0, 0, 0, 1>>>>],
          [cmd |-> "bind_pipeline_graphics"],
          [cmd |-> "set_viewport", first_viewport |-> 0,
           offset |-> <<0, 0>>, extent |-> render_area_extent],
          [cmd |-> "draw_indexed", index_count |-> index_count,
           instance_count |-> 1, first_index |-> 0, vertex_offset |-> 0,
           first_instance |-> 0],
          [cmd |-> "bind_vertex_buffers", first_binding |-> 0,
           buffer |-> vertex_buffer],
          [cmd |-> "bind_index_buffer", buffer |-> index_buffer],
          [cmd |-> "end_render_pass"]>>]

\* Renderer::record_command_buffer: the commands put into the builder.
record_command_buffer(rdr, vertex_buffer, index_buffer, index_count, output) ==
    LET render_area_extent == <<output.image.extent[1], output.image.extent[2]>>
        layers == output.image.extent[3]
    IN [usage |-> "OneTimeSubmit",
        output |-> output,
        commands |-> <<
          [cmd |-> "begin_render_pass",
           render_pass_format |-> rdr.render_pass_format,
           attachments |-> <<output>>, layers |-> layers,
           render_area_extent |-> render_area_extent,
           clear_values |-> <<<<0, 0, 0, 1>>>>],
          [cmd |-> "bind_pipeline_graphics"],
          [cmd |-> "set_viewport", first_viewport |-> 0,
           offset |-> <<0, 0>>, extent |-> render_area_extent],
          [cmd |-> "bind_vertex_buffers", first_binding |-> 0,
           buffer |-> vertex_buffer],
          [cmd |-> "bind_index_buffer", buffer |-> index_buffer],
          [cmd |-> "draw_indexed", index_count |-> index_count,
           instance_count |-> 1, first_index |-> 0, vertex_offset |-> 0,
           first_instance |-> 0],
          [cmd |-> "end_render_pass"]>>]

\* ------------------------------------------------------------ GPU timeline
GpuWork == {"acquire", "execute", "present"}

\* The GPU work a future is chained after (its `before` edges, transitively).
RECURSIVE ChainedAfter(_)
ChainedAfter(f) ==
    IF "before" \in DOMAIN f
    THEN ({f.before.kind} \cap GpuWork) \cup ChainedAfter(f.before)
    ELSE {}

\* The orders in which the device may complete the work of `futures`: every
\* order that respects the dependency edges, and no other constraint.
GpuOrders(futures) ==
    {o \in [1..Cardinality(futures) -> {f.kind : f \in futures}] :
        /\ \A i, j \in DOMAIN o : i # j => o[i] # o[j]
        /\ \A f \in futures : \A k \in ChainedAfter(f) :
              \A i, j \in DOMAIN o : (o[i] = f.kind /\ o[j] = k) => j < i}

\* Variant: the wait returns at once.
wait_returns_at_once(future, out) == [panic |-> FALSE, completed |-> {}]

\* presented.wait(None).expect(..) on the device's answer `out`: the GPU work
\* known to be complete when the wait on the fence of `future` returns, which
\* is all the work the fence is chained after, or the panic of the expect.
wait(future, out) ==
    [panic |-> out # "Success",
     completed |-> IF out = "Success" THEN ChainedAfter(future) ELSE {}]

\* GPU work of the command sequences and presentations submitted so far that
\* is still pending after the calls `calls` of a callback.
InFlightAfter(pending_work, calls) ==
    LET submitted == {calls[i].future.kind : i \in
                        {j \in 1..Len(calls) : calls[j].op \in
                            {"execute_command_buffer", "present_image"}}}
        completed == UNION {calls[i].completed : i \in
                        {j \in 1..Len(calls) : calls[j].op = "wait"}}
    IN (pending_work \cup submitted) \ completed

\* Image indices of the swapchain in use that were recorded against and not
\* presented since, after the calls `calls` of a callback; a new swapchain
\* starts with none.
UnpresentedAfter(bound, calls) ==
    LET idx(S) == {i \in 1..Len(calls) : calls[i].op = S}
        recreated == \E i \in idx("recreate_swapchain") : calls[i].ret
        recorded == {calls[i].command_buffer.output.image.index :
                        i \in idx("record_command_buffer")}
        flushed == \E i \in idx("then_signal_fence_and_flush") :
                      calls[i].device = "Success"
        presented == IF flushed
                     THEN {calls[i].future.image_index :
                              i \in idx("present_image")}
                     ELSE {}
    IN ((IF recreated THEN {} ELSE bound) \cup recorded) \ presented

\* -------------------------------------------------------------------- app
\* The surface as a callback leaves it: its extent, and the extents it was
\* resized to while the callback ran, for which Resized events are queued.
SurfaceAt(extent) == [extent |-> extent, resized |-> <<>>]

\* What the window system can do to the surface while the callback waits for
\* the device: nothing, or one resize if the queue has room for its event.
SurfaceMoves(surface, room) ==
    {surface} \cup
    (IF Len(surface.resized) < room
     THEN {[extent |-> e, resized |-> Append(surface.resized, e)] :
              e \in Extents \ {surface.extent}}
     ELSE {})

\* Variant: draw_frame leaves a swapchain of its own making in the framework.
FrameResult_new_swapchain(ret, st, fw, al, calls, held, order, redraw, surface) ==
    [ret |-> ret, status |-> st,
     framework |-> FrameworkOf(NewHandle(fw.swapchain.id),
                               fw.swapchain.create_info),
     allocator |-> al, log |-> calls, acquired |-> held, gpu_order |-> order,
     request_redraw |-> redraw, surface |-> surface]

\* What App::draw_frame leaves behind: its return value, whether it returned,
\* the framework, the allocator, the calls it made, the images still acquired, the order the
\* GPU worked in, whether a redraw was requested, and the surface.
FrameResult(ret, st, fw, al, calls, held, order, redraw, surface) ==
    [ret |-> ret, status |-> st, framework |-> fw, allocator |-> al,
     log |-> calls,
     acquired |-> held, gpu_order |-> order, request_redraw |-> redraw,
     surface |-> surface]

AcquireCall(swapchain, out, r) ==
    [op |-> "acquire_next_image", swapchain |-> swapchain.id,
     device |-> out, returned |-> ~r.panic /\ ~r.blocked, ret |-> r.value]

RecreateCall(extent, r) ==
    [op |-> "recreate_swapchain", extent |-> extent, ret |-> r.ret]

Held(held, out) ==
    IF out.res = "Success" THEN held \cup {out.image_index} ELSE held

\* Variant: the frame does not ask for the next redraw.
request_redraw_dropped == FALSE

\* framework.window.request_redraw(): a RedrawRequested is due.
request_redraw == TRUE

\* App::draw_frame from the allocation of the buffers to request_redraw, for
\* the frame token `info`.  The buffers of a frame are dropped when draw_frame
\* returns, so the allocators start the frame with no buffer alive, each
\* where the frame before left it.  The
\* surface can be resized before the presentation is answered and again while
\* the frame waits for its fence.
finish_frame(fw, al, rdr, info, calls, held, surface, room) ==
    LET vertex_alloc == alloc_vertex_buffer(al, {}, vertices)
        vertex_buffer == vertex_alloc.buffer
        index_alloc == alloc_index_buffer(vertex_alloc.allocator,
                                          {vertex_buffer}, indices)
        index_buffer == index_alloc.buffer
        after == index_alloc.allocator
        command_buffer ==
            record_command_buffer(rdr, vertex_buffer, index_buffer,
                Len(indices), fw.swapchain_image_views[info.image_index + 1])
        executed == execute_command_buffer(info.image_available, command_buffer)
        recorded == calls \o <<
            [op |-> "alloc_vertex_buffer", buffer |-> vertex_buffer],
            [op |-> "alloc_index_buffer", buffer |-> index_buffer],
            [op |-> "record_command_buffer", command_buffer |-> command_buffer],
            [op |-> "execute_command_buffer", future |-> executed]>>
        Panic(log_, s) ==
            FrameResult(FALSE, "Panicked", fw, after, log_, held, <<>>,
                        FALSE, s)
    IN IF vertex_alloc.panic \/ index_alloc.panic
       THEN {FrameResult(FALSE, "Panicked", fw, al, calls, held, <<>>,
                         FALSE, surface)}
       ELSE UNION {
         LET render_finished == then_signal_semaphore_and_flush(executed, o1)
             submitted ==
                 Append(recorded, [op |-> "then_signal_semaphore_and_flush",
                                   device |-> o1])
             present == present_image(fw, render_finished.future,
                                      info.image_index)
         IN IF render_finished.panic
            THEN {Panic(submitted, surface)}
            ELSE UNION {UNION {
              LET presented == then_signal_fence_and_flush(present, o2)
                  flushed == submitted \o <<
                      [op |-> "present_image", future |-> present],
                      [op |-> "then_signal_fence_and_flush", device |-> o2]>>
              IN IF presented.panic
                 THEN {Panic(flushed, s1)}
                 ELSE UNION {UNION {
                   LET waited == wait(presented.future, o3)
                       done == Append(flushed,
                                   [op |-> "wait", future |-> presented.future,
                                    device |-> o3,
                                    completed |-> waited.completed])
                   IN IF waited.panic
                      THEN {Panic(done, s2)}
                      ELSE {FrameResult(TRUE, "Running", fw, after, done,
                                held \ {info.image_index}, o,
                                request_redraw, s2) :
                               o \in GpuOrders({info.image_available,
                                                executed, present})}
                   : o3 \in DeviceSubmit}
                   : s2 \in SurfaceMoves(s1, room)}
              : o2 \in DevicePresent}
              : s1 \in SurfaceMoves(surface, room)}
         : o1 \in DeviceSubmit}

\* App::draw_frame: every result that the device's answers and the resizes of
\* the surface during the call allow.  `extent` is the extent of the surface
\* when the first acquisition is answered, `room` the number of window events
\* that can still be queued.  The surface can be resized before
\* recreate_swapchain reads its extent and again before the retried
\* acquisition is answered, and twice more while the frame is presented.
draw_frame(fw, al, rdr, extent, held, room) ==
    UNION {
      LET a1 == acquire_next_image(fw.swapchain, o1)
          c1 == <<AcquireCall(fw.swapchain, o1, a1)>>
          h1 == Held(held, o1)
          s0 == SurfaceAt(extent)
      IN IF a1.blocked
         THEN {FrameResult(FALSE, "Blocked", fw, al, c1, h1, <<>>, FALSE, s0)}
         ELSE IF a1.panic
         THEN {FrameResult(FALSE, "Panicked", fw, al, c1, h1, <<>>, FALSE, s0)}
         ELSE IF a1.value.some
         THEN finish_frame(fw, al, rdr, a1.value, c1, h1, s0, room)
         ELSE UNION {
           LET r == recreate_swapchain(fw, s1.extent)
               c2 == Append(c1, RecreateCall(s1.extent, r))
               h2 == IF r.ret THEN {} ELSE h1
           IN IF ~r.ret
              THEN {FrameResult(FALSE, "Running", fw, al, c2, h2, <<>>, FALSE, s1)}
              ELSE UNION {UNION {
                LET a2 == acquire_next_image(r.framework.swapchain, o2)
                    c3 == Append(c2, AcquireCall(r.framework.swapchain, o2, a2))
                    h3 == Held(h2, o2)
                IN IF a2.blocked
                   THEN {FrameResult(FALSE, "Blocked", r.framework, al, c3, h3,
                                     <<>>, FALSE, s2)}
                   ELSE IF a2.panic
                   THEN {FrameResult(FALSE, "Panicked", r.framework, al, c3, h3,
                                     <<>>, FALSE, s2)}
                   ELSE IF a2.value.some
                   THEN finish_frame(r.framework, al, rdr, a2.value, c3, h3,
                                     s2, room)
                   ELSE {FrameResult(FALSE, "Running", r.framework, al, c3, h3,
                                     <<>>, FALSE, s2)}
                : o2 \in DeviceAcquire(r.framework.swapchain, h2)}
                : s2 \in SurfaceMoves(s1, room)}
           : s1 \in SurfaceMoves(s0, room)}
      : o1 \in DeviceAcquire(fw.swapchain, held)}

\* ---------------------------------------------------------------- teardown
\* Fields of the owning structs in declaration order, which is the order in
\* which Rust drops them.
FrameworkFields ==
    <<"window", "instance", "surface", "physical_device", "device",
      "graphics_queue", "present_queue", "swapchain", "swapchain_images",
      "swapchain_image_views">>
AllocatorFields ==
    <<"command_buffer_allocator", "memory_allocator",
      "vertex_buffer_allocator", "index_buffer_allocator">>
RendererFields == <<"pipeline_layout", "render_pass", "graphics_pipeline">>

\* Variant: the renderer is declared (and dropped) before the allocator and
\* the framework.
AppFields_renderer_first == <<"renderer", "allocator", "framework", "minimized">>

AppFields == <<"framework", "allocator", "renderer", "minimized">>

FieldsOf(field) ==
    CASE field = "framework" -> FrameworkFields
      [] field = "allocator" -> AllocatorFields
      [] field = "renderer" -> RendererFields
      [] OTHER -> <<>>

\* The objects an object keeps alive: the references handed to its
\* constructor (an image of the swapchain keeps the swapchain, a queue keeps
\* its device).
ArcsOf(object) ==
    CASE object = "surface" -> <<"instance", "window">>
      [] object = "physical_device" -> <<"instance">>
      [] object = "device" -> <<"physical_device">>
      [] object = "graphics_queue" -> <<"device">>
      [] object = "present_queue" -> <<"device">>
      [] object = "swapchain" -> <<"device", "surface">>
      [] object = "swapchain_images" -> <<"swapchain">>
      [] object = "swapchain_image_views" -> <<"swapchain_images">>
      [] object = "command_buffer_allocator" -> <<"device">>
      [] object = "memory_allocator" -> <<"device">>
      [] object = "vertex_buffer_allocator" -> <<"memory_allocator">>
      [] object = "index_buffer_allocator" -> <<"memory_allocator">>
      [] object = "pipeline_layout" -> <<"device">>
      [] object = "render_pass" -> <<"device">>
      [] object = "graphics_pipeline" ->
             <<"device", "pipeline_layout", "render_pass">>
      [] OTHER -> <<>>

Objects ==
    {FrameworkFields[i] : i \in DOMAIN FrameworkFields}
    \cup {AllocatorFields[i] : i \in DOMAIN AllocatorFields}
    \cup {RendererFields[i] : i \in DOMAIN RendererFields}

Destroyed(st) == {st.destroyed[i] : i \in DOMAIN st.destroyed}

\* An object is referenced while the App holds its handle or a live object
\* keeps a reference to it.
Referenced(object, st) ==
    \/ object \in st.held
    \/ \E d \in Objects \ Destroyed(st) :
          \E i \in DOMAIN ArcsOf(d) : ArcsOf(d)[i] = object

\* Dropping one reference to `object`: the object is destroyed when it was
\* the last one, and then lets go of the objects it kept alive, in order.
RECURSIVE ReleaseAll(_, _)
Release(object, st) ==
    IF Referenced(object, st) \/ object \in Destroyed(st)
    THEN st
    ELSE ReleaseAll(ArcsOf(object),
                    [st EXCEPT !.destroyed = Append(@, object)])
ReleaseAll(objects, st) ==
    IF objects = <<>> THEN st
    ELSE ReleaseAll(Tail(objects), Release(Head(objects), st))

\* Dropping the handles of `fields`, one after the other.
RECURSIVE DropFields(_, _)
DropFields(fields, st) ==
    IF fields = <<>> THEN st
    ELSE DropFields(Tail(fields),
                    Release(Head(fields),
                            [st EXCEPT !.held = @ \ {Head(fields)}]))

\* Dropping the App (self.0.take()): its fields in declaration order, each
\* struct its own fields in declaration order.  The result is the order in
\* which the objects are destroyed.
RECURSIVE DropStructs(_, _)
DropStructs(structs, st) ==
    IF structs = <<>> THEN st
    ELSE DropStructs(Tail(structs), DropFields(FieldsOf(Head(structs)), st))

DropApp == DropStructs(AppFields, [held |-> Objects, destroyed |-> <<>>]).destroyed

\* ---------------------------------------------------------------- events
Resized(e) == [type |-> "Resized", width |-> e[1], height |-> e[2]]
CloseRequested == [type |-> "CloseRequested", width |-> 0, height |-> 0]

\* What the Resized event handled last was: "none" handled yet, one of "zero"
\* extent, one of "nonzero" extent, or one of nonzero extent after which a
\* RedrawRequested has been handled ("drawn").
resized_kind(width, height) ==
    IF width = 0 \/ height = 0 THEN "zero" ELSE "nonzero"

\* What a callback saw when it started.
Seen(event, width, height, queue, draw) ==
    [event |-> event, width |-> width, height |-> height,
     app_some |-> app_some, minimized |-> minimized, framework |-> framework,
     renderer |-> renderer,
     extent |-> drawable, resized |-> last_resized,
     in_sync |-> \A i \in 1..Len(queue) : queue[i].type # "Resized",
     in_flight |-> in_flight, unpresented |-> unpresented,
     restored |-> restored,
     draw_frame |-> draw]

\* The value the renderer holds while no App exists (never read).
NoRenderer == [render_pass_format |-> "B8G8R8A8_SRGB"]

\* No callback ran in the step that led here (the environment moved).
NoStep ==
    [event |-> "none", width |-> 0, height |-> 0,
     app_some |-> FALSE, minimized |-> FALSE,
     framework |-> NoFramework, renderer |-> NoRenderer,
     extent |-> <<0, 0>>,
     resized |-> "none", in_sync |-> TRUE,
     in_flight |-> {}, unpresented |-> {},
     restored |-> FALSE,
     draw_frame |-> "not_called"]

Init ==
    /\ started = FALSE
    /\ status = "Running"
    /\ app_some = FALSE
    /\ framework = NoFramework
    /\ allocator = NoAllocator
    /\ renderer = NoRenderer
    /\ minimized = FALSE
    /\ drawable = <<0, 0>>
    /\ pending = <<>>
    /\ redraw_requested = FALSE
    /\ acquired = {}
    /\ last_resized = "none"
    /\ last = NoStep
    /\ log = <<>>
    /\ gpu_order = <<>>
    /\ in_flight = {}
    /\ unpresented = {}
    /\ restored = FALSE

\* OptionApp::resumed: App::new (Framework::new, Allocator::new, Renderer::new)
\* for a new window of extent e on a device with the given properties.
resumed ==
    /\ ~started
    /\ UNCHANGED <<in_flight, unpresented, restored>>
    /\ status = "Running"
    /\ \E formats \in SurfaceFormatLists, caps \in SurfaceCapabilities,
          e \in NonZeroExtents :
         LET format == select_swapchain_format(formats)
             create_info ==
                 new_swapchain_create_info(format[1], "Fifo", e,
                                           image_count(caps))
         IN /\ started' = TRUE
            /\ last' = Seen("resumed", 0, 0, pending, "not_called")
            /\ gpu_order' = <<>>
            /\ IF format = <<>>
               THEN /\ status' = "Panicked"
                    /\ log' = <<>>
                    /\ UNCHANGED <<app_some, framework, allocator, renderer,
                                   minimized, drawable>>
               ELSE IF ~SwapchainCreateValid(caps, create_info)
               THEN /\ status' = "Panicked"
                    /\ log' = <<[op |-> "new_swapchain",
                                 capabilities |-> caps,
                                 create_info |-> create_info, ok |-> FALSE]>>
                    /\ UNCHANGED <<app_some, framework, allocator, renderer,
                                   minimized, drawable>>
               ELSE /\ status' = "Running"
                    /\ log' = <<[op |-> "new_swapchain",
                                 capabilities |-> caps,
                                 create_info |-> create_info, ok |-> TRUE]>>
                    /\ app_some' = TRUE
                    /\ framework' = FrameworkOf(1, create_info)
                    /\ allocator' = NewAllocator
                    /\ renderer' = [render_pass_format |-> format[1].format]
                    /\ minimized' = FALSE
                    /\ drawable' = e
    /\ UNCHANGED <<pending, redraw_requested, acquired,
                   last_resized>>

\* The window system resizes the window: the surface has the new extent at
\* once, the Resized event that reports it is queued.
WindowResize ==
    /\ status = "Running"
    /\ UNCHANGED <<in_flight, unpresented, restored>>
    /\ app_some
    /\ Len(pending) < MaxPending
    /\ \E e \in Extents :
         /\ e # drawable
         /\ drawable' = e
         /\ pending' = Append(pending, Resized(e))
    /\ last' = NoStep
    /\ log' = <<>>
    /\ gpu_order' = <<>>
    /\ UNCHANGED <<started, status, app_some, framework, allocator, renderer,
                   minimized,
                   redraw_requested, acquired, last_resized>>

\* The user asks to close the window.
WindowClose ==
    /\ status = "Running"
    /\ UNCHANGED <<in_flight, unpresented, restored>>
    /\ app_some
    /\ Len(pending) < MaxPending
    /\ \A i \in 1..Len(pending) : pending[i].type # "CloseRequested"
    /\ pending' = Append(pending, CloseRequested)
    /\ last' = NoStep
    /\ log' = <<>>
    /\ gpu_order' = <<>>
    /\ UNCHANGED <<started, status, app_some, framework, allocator, renderer,
                   minimized,
                   drawable, redraw_requested, acquired, last_resized>>

\* The window system asks for a redraw (first exposure, damage).
WindowRedraw ==
    /\ status = "Running"
    /\ UNCHANGED <<in_flight, unpresented, restored>>
    /\ app_some
    /\ ~redraw_requested
    /\ redraw_requested' = TRUE
    /\ last' = NoStep
    /\ log' = <<>>
    /\ gpu_order' = <<>>
    /\ UNCHANGED <<started, status, app_some, framework, allocator, renderer,
                   minimized,
                   drawable, pending, acquired,
                   last_resized>>

\* Variant: suspends only when both dimensions are zero.
resized_to_nothing_both(width, height) == width = 0 /\ height = 0

\* OptionApp::window_event, Resized arm: the test that suspends rendering.
resized_to_nothing(width, height) == width = 0 \/ height = 0

\* Variant: a skipped frame does not suspend rendering.
minimized_after_draw_unchanged(was_minimized, drawn) == was_minimized

\* OptionApp::window_event, RedrawRequested arm: `minimized` after
\* `if !app.minimized && !app.draw_frame() { app.minimized = true; }`.
minimized_after_draw(was_minimized, drawn) ==
    IF ~was_minimized /\ ~drawn THEN TRUE ELSE was_minimized

\* OptionApp::window_event, CloseRequested arm: self.0.take().
window_event_CloseRequested ==
    /\ status = "Running"
    /\ started
    /\ pending # <<>>
    /\ Head(pending).type = "CloseRequested"
    /\ pending' = Tail(pending)
    /\ last' = Seen("CloseRequested", 0, 0, Tail(pending), "not_called")
    /\ app_some' = FALSE
    /\ framework' = NoFramework
    /\ allocator' = NoAllocator
    /\ renderer' = NoRenderer
    /\ minimized' = FALSE
    /\ acquired' = {}
    /\ in_flight' = {}
    /\ unpresented' = {}
    /\ restored' = FALSE
    /\ log' = IF app_some THEN <<[op |-> "drop", destroyed |-> DropApp]>>
               ELSE <<>>
    /\ gpu_order' = <<>>
    /\ UNCHANGED <<started, status, drawable, redraw_requested,
                   last_resized>>

\* OptionApp::window_event, Resized arm.
window_event_Resized ==
    /\ status = "Running"
    /\ started
    /\ pending # <<>>
    /\ Head(pending).type = "Resized"
    /\ LET width == Head(pending).width
           height == Head(pending).height
           r == recreate_swapchain(framework, drawable)
       IN /\ pending' = Tail(pending)
          /\ last' = Seen("Resized", width, height, Tail(pending),
                          "not_called")
          /\ gpu_order' = <<>>
          /\ IF ~app_some
             THEN /\ status' = "Panicked"
                  /\ log' = <<>>
                  /\ UNCHANGED <<framework, minimized, acquired, last_resized,
                                 unpresented, restored>>
             ELSE IF resized_to_nothing(width, height)
             THEN /\ minimized' = TRUE
                  /\ restored' = FALSE
                  /\ log' = <<>>
                  /\ last_resized' = resized_kind(width, height)
                  /\ UNCHANGED <<status, framework, acquired, unpresented>>
             ELSE /\ framework' = r.framework
                  /\ acquired' = IF r.ret THEN {} ELSE acquired
                  /\ unpresented' = IF r.ret THEN {} ELSE unpresented
                  /\ restored' = minimized
                  /\ minimized' = FALSE
                  /\ log' = <<RecreateCall(drawable, r)>>
                  /\ last_resized' = resized_kind(width, height)
                  /\ UNCHANGED status
    /\ UNCHANGED <<started, app_some, allocator, renderer, drawable,
                   redraw_requested, in_flight>>

\* OptionApp::window_event, RedrawRequested arm.
window_event_RedrawRequested ==
    /\ status = "Running"
    /\ started
    /\ redraw_requested
    /\ last_resized' = IF last_resized = "nonzero" THEN "drawn"
                       ELSE last_resized
    /\ restored' = FALSE
    /\ IF ~app_some
       THEN /\ status' = "Panicked"
            /\ last' = Seen("RedrawRequested", 0, 0, pending, "not_called")
            /\ redraw_requested' = FALSE
            /\ log' = <<>>
            /\ gpu_order' = <<>>
            /\ UNCHANGED <<framework, allocator, minimized, acquired,
                           in_flight, unpresented, drawable, pending>>
       ELSE IF minimized
       THEN /\ last' = Seen("RedrawRequested", 0, 0, pending, "not_called")
            /\ redraw_requested' = FALSE
            /\ log' = <<>>
            /\ gpu_order' = <<>>
            /\ UNCHANGED <<status, framework, allocator, minimized, acquired,
                           in_flight, unpresented, drawable, pending>>
       ELSE \E r \in draw_frame(framework, allocator, renderer, drawable,
                                acquired, MaxPending - Len(pending)) :
            LET queue == pending \o
                    [i \in DOMAIN r.surface.resized |->
                        Resized(r.surface.resized[i])]
            IN /\ in_flight' = InFlightAfter(in_flight, r.log)
               /\ unpresented' = UnpresentedAfter(unpresented, r.log)
               /\ status' = r.status
               /\ framework' = r.framework
               /\ allocator' = r.allocator
               /\ acquired' = r.acquired
               /\ log' = r.log
               /\ gpu_order' = r.gpu_order
               /\ redraw_requested' = r.request_redraw
               /\ drawable' = r.surface.extent
               /\ pending' = queue
               /\ minimized' = IF r.status = "Running"
                               THEN minimized_after_draw(minimized, r.ret)
                               ELSE minimized
               /\ last' = Seen("RedrawRequested", 0, 0, queue,
                               IF r.status # "Running" THEN r.status
                               ELSE IF r.ret THEN "true" ELSE "false")
    /\ UNCHANGED <<started, app_some, renderer>>

\* Variant: about_to_wait requests exit whether the App is there or not.
exit_requested_always(some) == TRUE

\* OptionApp::about_to_wait: the test `self.0.is_none()` that guards
\* event_loop.exit().
exit_requested(some) == ~some

\* OptionApp::about_to_wait: exit the event loop once the App is gone; with
\* the App present the callback does nothing.
about_to_wait ==
    /\ status = "Running"
    /\ UNCHANGED <<in_flight, unpresented, restored>>
    /\ started
    /\ last' = IF app_some THEN NoStep
               ELSE Seen("about_to_wait", 0, 0, pending, "not_called")
    /\ status' = IF exit_requested(app_some) THEN "Exited" ELSE status
    /\ log' = <<>>
    /\ gpu_order' = <<>>
    /\ UNCHANGED <<started, app_some, framework, allocator, renderer,
                   minimized, drawable, pending, redraw_requested, acquired,
                   last_resized>>

Next ==
    \/ resumed
    \/ WindowResize
    \/ WindowClose
    \/ WindowRedraw
    \/ window_event_CloseRequested
    \/ window_event_Resized
    \/ window_event_RedrawRequested
    \/ about_to_wait

Spec == Init /\ [][Next]_vars

\* ====================================================================
\* Properties
\* ====================================================================
\* Positions of the calls of `op` in the trace of the last callback.
Calls(op) == {i \in 1..Len(log) : log[i].op = op}

Recreations == Calls("recreate_swapchain")
Acquisitions == Calls("acquire_next_image")
FrameWork ==
    Calls("alloc_vertex_buffer") \cup Calls("alloc_index_buffer")
    \cup Calls("record_command_buffer") \cup Calls("execute_command_buffer")
    \cup Calls("present_image") \cup Calls("then_signal_fence_and_flush")
    \cup Calls("wait")

\* A device call of the callback failed: an acquisition was answered with an
\* error, or a flush or the wait on the fence was.
DeviceFailed ==
    \E i \in DOMAIN log :
        \/ /\ log[i].op = "acquire_next_image"
           /\ log[i].device.res \notin {"Success", "Blocked"}
        \/ /\ log[i].op \in {"then_signal_semaphore_and_flush",
                             "then_signal_fence_and_flush", "wait"}
           /\ log[i].device # "Success"

\* The last step handled a RedrawRequested with the App present.
RedrawHandled == last.event = "RedrawRequested" /\ last.app_some
\* ... and draw_frame returned true.
FrameCompleted == RedrawHandled /\ last.draw_frame = "true"
SwapchainExtent(fw) == fw.swapchain.create_info.image_extent

\* C1: a frame that draw_frame completes makes its calls in the order
\* acquire, record, submit, present, wait, once each; the submission waits for
\* the acquisition signal of the frame's successful acquire, the presentation
\* for the semaphore signalled by that submission, the wait for the fence of
\* that presentation; the device completes acquisition, execution and
\* presentation in that order and in no other.
C1_FrameOrder ==
    FrameCompleted =>
        LET acquired_at == {i \in Acquisitions : log[i].ret.some}
            The(S) == CHOOSE i \in S : TRUE
            a == The(acquired_at)
            r == The(Calls("record_command_buffer"))
            x == The(Calls("execute_command_buffer"))
            p == The(Calls("present_image"))
            w == The(Calls("wait"))
        IN /\ Cardinality(acquired_at) = 1
           /\ Cardinality(Calls("record_command_buffer")) = 1
           /\ Cardinality(Calls("execute_command_buffer")) = 1
           /\ Cardinality(Calls("present_image")) = 1
           /\ Cardinality(Calls("wait")) = 1
           /\ a < r /\ r < x /\ x < p /\ p < w
           /\ \A i \in Acquisitions : i <= a
           /\ log[x].future =
                execute_command_buffer(log[a].ret.image_available,
                                       log[r].command_buffer)
           /\ log[p].future =
                present_image(framework,
                              then_signal_semaphore_and_flush(
                                  log[x].future, "Success").future,
                              log[a].ret.image_index)
           /\ log[w].future =
                then_signal_fence_and_flush(log[p].future, "Success").future
           /\ gpu_order = <<"acquire", "execute", "present">>

\* C1 witness: a frame was completed after a recreation and a retried acquire.
C1_Witness == FrameCompleted /\ Recreations # {}

\* C2: once a Resized event with a zero width or height has been handled and
\* no Resized event with both dimensions nonzero after it, a RedrawRequested
\* makes no device call at all and leaves the swapchain alone.
C2_NoWorkWhileZero ==
    (last.event = "RedrawRequested" /\ last_resized = "zero")
        => log = <<>> /\ framework = last.framework

\* C2 witness: a RedrawRequested handled by the App after a resize to a zero
\* extent, the window having a nonzero extent again by then.
C2_Witness ==
    /\ RedrawHandled
    /\ last_resized = "zero"
    /\ ~IsZeroExtent(last.extent)

\* C3: recreate_swapchain called at a drawable extent with a zero dimension
\* returns false and leaves swapchain, images and views as they were, and it
\* does so again however often it is called there.
C3_ZeroRecreateNoChange ==
    /\ \A i \in Recreations :
          IsZeroExtent(log[i].extent) =>
              ~log[i].ret /\ framework = last.framework
    /\ app_some =>
          \A e \in Extents :
              IsZeroExtent(e) =>
                  LET once == recreate_swapchain(framework, e)
                      twice == recreate_swapchain(once.framework, e)
                  IN /\ ~once.ret /\ once.framework = framework
                     /\ ~twice.ret /\ twice.framework = framework

\* C3 witness: a recreation was attempted at an extent of zero height only.
C3_Witness ==
    \E i \in Recreations : log[i].extent[1] # 0 /\ log[i].extent[2] = 0

\* C4: recreate_swapchain called at a nonzero drawable extent returns true;
\* the swapchain is a new one, its extent is the drawable extent at the call
\* (the extent the callback started with or one the surface was resized to
\* since; the present one when no Resized event is waiting), its other
\* creation parameters are those of the swapchain it replaces, and the image
\* list and the view list are those of the new swapchain.
C4_RecreateReplaces ==
    \A i \in Recreations :
        ~IsZeroExtent(log[i].extent) =>
            /\ log[i].ret
            /\ \/ log[i].extent = last.extent
               \/ \E k \in DOMAIN pending :
                     pending[k] = Resized(log[i].extent)
            /\ last.in_sync => log[i].extent = drawable
            /\ framework.swapchain.id # last.framework.swapchain.id
            /\ framework.swapchain.create_info =
                 [last.framework.swapchain.create_info
                     EXCEPT !.image_extent = log[i].extent]
            /\ Len(framework.swapchain_images) =
                 framework.swapchain.create_info.min_image_count
            /\ Len(framework.swapchain_image_views) =
                 Len(framework.swapchain_images)
            /\ \A k \in 1..Len(framework.swapchain_images) :
                  /\ framework.swapchain_images[k].swapchain =
                        framework.swapchain.id
                  /\ framework.swapchain_images[k].index = k - 1
                  /\ framework.swapchain_images[k].extent =
                        <<log[i].extent[1], log[i].extent[2], 1>>
                  /\ framework.swapchain_image_views[k].image =
                        framework.swapchain_images[k]
                  /\ framework.swapchain_image_views[k].format =
                        framework.swapchain.create_info.image_format

\* C4 witness: a recreation at a nonzero extent that differs from the extent
\* of the swapchain it replaced, whose format is not the default one.
C4_Witness ==
    \E i \in Recreations :
        /\ log[i].ret
        /\ SwapchainExtent(last.framework) # log[i].extent
        /\ framework.swapchain.create_info.image_format = "B8G8R8A8_UNORM"

\* C5: a RedrawRequested handled while not minimized makes at most two
\* acquisitions and at most one recreation; the recreation comes right after
\* a first acquisition that was suboptimal, the second acquisition right
\* after a recreation that returned true; and when draw_frame ends without an
\* image (it returns false) nothing is allocated, recorded, submitted or
\* presented, minimized is set, and the process keeps running.
C5_RetryOnceThenSuspend ==
    (RedrawHandled /\ ~last.minimized) =>
        /\ Cardinality(Acquisitions) <= 2
        /\ Cardinality(Recreations) <= 1
        /\ \A i \in Recreations :
              /\ i = 2
              /\ log[1].op = "acquire_next_image"
              /\ log[1].device.res = "Success" /\ log[1].device.suboptimal
        /\ \A i \in Acquisitions :
              i > 1 => /\ i = 3
                       /\ log[2].op = "recreate_swapchain" /\ log[2].ret
        /\ last.draw_frame = "false" =>
              /\ FrameWork = {}
              /\ gpu_order = <<>>
              /\ minimized
              /\ status = "Running"

\* C5 witness: a frame was skipped after a suboptimal acquisition and a
\* recreation that returned false.
C5_Witness ==
    /\ RedrawHandled /\ ~last.minimized
    /\ last.draw_frame = "false"
    /\ Recreations = {2}

\* C6 (as claimed): an acquisition that reports the surface out of date is
\* recovered like a suboptimal one: the call returns, a recreation follows it
\* and the process keeps running.
C6_OutOfDateRecovered ==
    \A i \in Acquisitions :
        log[i].device.res = "OutOfDate" =>
            /\ status = "Running"
            /\ log[i].returned
            /\ i + 1 \in Recreations

\* C7: acquire_next_image returns None exactly when the device hands out an
\* image and reports it suboptimal, Some(index, signal) with the device's
\* index exactly when it hands one out and does not; on any other answer the
\* call does not return, the process panics, and no call follows it.
C7_AcquireResult ==
    \A i \in Acquisitions :
        /\ (log[i].returned /\ ~log[i].ret.some)
              <=> (log[i].device.res = "Success" /\ log[i].device.suboptimal)
        /\ (log[i].returned /\ log[i].ret.some)
              <=> (log[i].device.res = "Success" /\ ~log[i].device.suboptimal)
        /\ (log[i].returned /\ log[i].ret.some) =>
              log[i].ret =
                  SomeInfo(log[i].device.image_index,
                           [kind |-> "acquire", swapchain |-> log[i].swapchain,
                            image_index |-> log[i].device.image_index])
        /\ log[i].device.res \notin {"Success", "Blocked"} =>
              /\ ~log[i].returned
              /\ status = "Panicked"
              /\ i = Len(log)
              /\ ~minimized

\* C7 witness: the device answered an acquisition with an error.
C7_Witness ==
    \E i \in Acquisitions : log[i].device.res = "OutOfDate"

\* C8 (as claimed): the first RedrawRequested handled after a Resized event of
\* nonzero extent presents a frame, after at most one recreation.
C8_RedrawAfterResizePresents ==
    (RedrawHandled /\ last.resized = "nonzero")
        => /\ last.draw_frame = "true"
           /\ Calls("present_image") # {}
           /\ Cardinality(Recreations) <= 1
           /\ ~minimized

\* The device handed out the image of acquisition i with the report that it
\* is suboptimal.
Flagged(i) == log[i].device.res = "Success" /\ log[i].device.suboptimal

\* The frame was presented by a draw_frame that acquired once and did not
\* recreate the swapchain.
PresentedAtOnce ==
    /\ last.draw_frame = "true"
    /\ Acquisitions = {1}
    /\ Recreations = {}
    /\ Cardinality(Calls("present_image")) = 1
    /\ ~minimized

\* The frame was presented after a suboptimal first acquisition, exactly one
\* recreation, which replaced the swapchain, and a second acquisition.
PresentedAfterRecreation ==
    /\ last.draw_frame = "true"
    /\ Acquisitions = {1, 3}
    /\ Flagged(1)
    /\ Recreations = {2}
    /\ log[2].ret
    /\ Cardinality(Calls("present_image")) = 1
    /\ ~minimized

\* The frame was skipped and rendering suspended: the first acquisition was
\* suboptimal, and either the recreation failed, the surface having a zero
\* extent, or the retried acquisition was suboptimal as well.
SkippedAndSuspended ==
    /\ last.draw_frame = "false"
    /\ status = "Running"
    /\ minimized
    /\ FrameWork = {}
    /\ Flagged(1)
    /\ Recreations = {2}
    /\ \/ /\ ~log[2].ret
          /\ IsZeroExtent(log[2].extent)
          /\ Acquisitions = {1}
       \/ /\ log[2].ret
          /\ Acquisitions = {1, 3}
          /\ Flagged(3)

\* The process panicked on a device call that failed.
PanickedOnDevice == status = "Panicked" /\ DeviceFailed

\* The acquisition does not return: every image of the swapchain is held.
BlockedOnAcquire ==
    /\ status = "Blocked"
    /\ log[Len(log)].op = "acquire_next_image"
    /\ log[Len(log)].device.res = "Blocked"

\* C8 (amended): the first RedrawRequested handled after a Resized event of
\* nonzero extent calls draw_frame and presents a frame, at once or after
\* exactly one recreation that follows a suboptimal first acquisition, except
\* in three cases: the first acquisition is suboptimal and the recreation
\* fails on a zero extent or the retried acquisition is suboptimal too (the
\* frame is skipped and rendering suspended); a device call fails (the
\* process panics); no image of the swapchain is free (the acquisition does
\* not return).  The recreation does not fail when no later resize of the
\* window is waiting to be delivered.
C8_RedrawAfterResizeOutcomes ==
    (RedrawHandled /\ last.resized = "nonzero")
        => /\ ~last.minimized
           /\ \/ PresentedAtOnce
              \/ PresentedAfterRecreation
              \/ SkippedAndSuspended
              \/ PanickedOnDevice
              \/ BlockedOnAcquire
           /\ last.in_sync => \A i \in Recreations : log[i].ret

\* C8 witness: such a redraw presented a frame after one recreation that
\* followed a suboptimal acquisition on a swapchain of the window's extent.
C8_Witness ==
    /\ RedrawHandled
    /\ last.resized = "nonzero"
    /\ SwapchainExtent(last.framework) = last.extent
    /\ PresentedAfterRecreation

\* A recreation of the last step replaced the swapchain.
Recreated == \E i \in Recreations : log[i].ret

\* C9 (as claimed): after the recreation made for a Resized event of nonzero
\* extent (w, h), the swapchain extent is (w, h).
C9_ExtentOfLastResized ==
    (last.event = "Resized" /\ Recreated)
        => SwapchainExtent(framework) = <<last.width, last.height>>

\* C9 (amended): after a recreation the swapchain extent is the drawable
\* extent the surface had when the recreation ran, which is the present one
\* when no Resized event is waiting; for the recreation made
\* for a Resized event it is the extent of that event whenever no later
\* resize of the window is waiting to be delivered.
C9_ExtentOfDrawable ==
    Recreated =>
        /\ \A i \in Recreations :
              log[i].ret => SwapchainExtent(framework) = log[i].extent
        /\ last.event = "Resized" => SwapchainExtent(framework) = last.extent
        /\ last.in_sync => SwapchainExtent(framework) = drawable
        /\ \A k \in 1..Len(framework.swapchain_images) :
              framework.swapchain_images[k].extent =
                  <<SwapchainExtent(framework)[1],
                    SwapchainExtent(framework)[2], 1>>
        /\ (last.event = "Resized" /\ last.in_sync) =>
              SwapchainExtent(framework) = <<last.width, last.height>>

\* C9 witness: the recreation for a Resized event ran while a later resize
\* was waiting, at an extent that is not the event's.
C9_Witness ==
    /\ Recreated
    /\ last.event = "Resized" /\ ~last.in_sync
    /\ last.extent # <<last.width, last.height>>

\* C10 (as claimed): a frame is recorded against and presented on a swapchain
\* whose extent is the drawable extent of the window; if the swapchain did not
\* have that extent when the frame began, it was recreated before the frame
\* was recorded.
C10_PresentedExtentIsDrawable ==
    \A p \in Calls("present_image") :
        /\ SwapchainExtent(framework) = last.extent
        /\ \A r \in Calls("record_command_buffer") :
              /\ log[r].command_buffer.output.image.extent =
                    <<last.extent[1], last.extent[2], 1>>
              /\ SwapchainExtent(last.framework) # last.extent =>
                    \E i \in Recreations : i < r /\ log[i].ret

\* The device handed out the image of acquisition i without a report.
Unflagged(i) == log[i].device.res = "Success" /\ ~log[i].device.suboptimal

\* C10 (amended): a frame is recorded against and presented on the current
\* swapchain.  Its extent is the drawable extent of the window whenever no
\* resize of the window is waiting to be delivered; when the swapchain was
\* recreated in the same draw_frame, which happens before the frame is
\* recorded and only after the device reported the acquisition suboptimal,
\* it is the extent the surface had at the recreation.
\* A swapchain of another extent on which the device reports nothing is not
\* recreated: the frame is recorded and presented at the old extent.
C10_PresentedExtentWhenReported ==
    \A p \in Calls("present_image") :
        /\ log[p].future.swapchain = framework.swapchain.id
        /\ \A r \in Calls("record_command_buffer") :
              /\ log[r].command_buffer.output \in
                    {framework.swapchain_image_views[k] :
                        k \in 1..Len(framework.swapchain_image_views)}
              /\ log[r].command_buffer.output.image.extent =
                    <<SwapchainExtent(framework)[1],
                      SwapchainExtent(framework)[2], 1>>
              /\ \A i \in Recreations : i < r /\ log[i].ret
        /\ last.in_sync =>
              /\ SwapchainExtent(framework) = last.extent
              /\ SwapchainExtent(framework) = drawable
        /\ \A i \in Recreations :
              log[i].ret => SwapchainExtent(framework) = log[i].extent
        /\ Recreated <=> (1 \in Acquisitions /\ ~Unflagged(1))
        /\ ~Recreated => framework = last.framework

\* C10 witness: a frame was presented in a step that began with a swapchain
\* of another extent than the window's, after the swapchain was recreated.
C10_Witness ==
    /\ Calls("present_image") # {}
    /\ SwapchainExtent(last.framework) # last.extent
    /\ Recreated

\* The last step handled a Resized event with the App present.
ResizedHandled == last.event = "Resized" /\ last.app_some

\* C11: handling a Resized event with a zero dimension sets minimized and
\* leaves the swapchain alone; with both dimensions nonzero it forces one
\* recreation and clears minimized, so that minimized = FALSE after the
\* handler implies that the swapchain was recreated, at a nonzero extent.
C11_ResizedRecreatesOrSuspends ==
    ResizedHandled =>
        IF last.width = 0 \/ last.height = 0
        THEN /\ minimized
             /\ log = <<>>
             /\ framework = last.framework
        ELSE /\ ~minimized
             /\ Cardinality(Recreations) = 1
             /\ Len(log) = 1
             /\ Recreated
             /\ framework # last.framework
             /\ ~IsZeroExtent(SwapchainExtent(framework))

\* C12: at most one frame is in flight.  draw_frame returns only after the
\* wait on the fence of its presentation, which covers the execution and the
\* presentation of the frame, so no submitted work is pending between
\* callbacks of a running program; every acquisition of a callback is issued with nothing pending
\* and before the callback submits anything.
C12_OneFrameInFlight ==
    /\ status # "Panicked" => in_flight = {}
    /\ Acquisitions # {} => last.in_flight = {}
    /\ \A a \in Acquisitions :
          \A k \in Calls("execute_command_buffer") \cup Calls("present_image") :
              a < k
    /\ FrameCompleted =>
          /\ log[Len(log)].op = "wait"
          /\ log[Len(log)].future.kind = "fence"
          /\ {"acquire", "execute", "present"} \subseteq log[Len(log)].completed

\* C12 witness: a frame was submitted and presented by the last callback.
C12_Witness ==
    /\ FrameCompleted
    /\ Calls("execute_command_buffer") # {}
    /\ Calls("present_image") # {}
    /\ Calls("wait") # {}

\* C13: an image index is recorded against only when every earlier use of it
\* on the same swapchain has been presented: the frame that binds an index
\* acquired it and presents that same index of that same swapchain before it
\* returns, so no index stays bound and unpresented between the frames of a
\* running program.
C13_BoundImagePresented ==
    /\ status # "Panicked" => unpresented = {}
    /\ \A r \in Calls("record_command_buffer") :
          LET img == log[r].command_buffer.output.image
          IN /\ Recreated \/ img.index \notin last.unpresented
             /\ \E a \in Acquisitions :
                   /\ a < r
                   /\ log[a].device.res = "Success"
                   /\ log[a].device.image_index = img.index
                   /\ log[a].swapchain = img.swapchain
             /\ status # "Panicked" =>
                   \E p \in Calls("present_image") :
                       /\ r < p
                       /\ log[p].future.image_index = img.index
                       /\ log[p].future.swapchain = img.swapchain

\* C13 witness: a frame bound an image of a swapchain that earlier callbacks
\* may have drawn to (the swapchain was not recreated in this callback).
C13_Witness ==
    /\ FrameCompleted
    /\ ~Recreated
    /\ last.resized = "drawn"
    /\ Calls("record_command_buffer") # {}

\* C14: every frame token produced by an acquisition is consumed exactly once
\* by the frame that acquired it: its image is recorded against, the recording
\* is submitted behind its acquisition signal and its image index is presented
\* on its swapchain, all in the same callback; no image the device handed out
\* (that of a suboptimal acquisition included) is left acquired and
\* unpresented.
C14_TokenConsumedOnce ==
    /\ acquired = {}
    /\ \A a \in Acquisitions : log[a].device.res = "Success" =>
          LET token == [kind |-> "acquire", swapchain |-> log[a].swapchain,
                        image_index |-> log[a].device.image_index]
              bound == {r \in Calls("record_command_buffer") :
                          /\ a < r
                          /\ log[r].command_buffer.output.image.swapchain =
                                token.swapchain
                          /\ log[r].command_buffer.output.image.index =
                                token.image_index}
              submitted == {x \in Calls("execute_command_buffer") :
                              a < x /\ log[x].future.before = token}
              presented == {p \in Calls("present_image") :
                              /\ a < p
                              /\ log[p].future.swapchain = token.swapchain
                              /\ log[p].future.image_index = token.image_index}
          IN /\ Cardinality(bound) = 1
             /\ Cardinality(submitted) = 1
             /\ Cardinality(presented) = 1

\* The last step handled a CloseRequested with the App present.
CloseHandled == last.event = "CloseRequested" /\ last.app_some
PipelineObjects == {"graphics_pipeline", "pipeline_layout", "render_pass"}
AllocatorObjects ==
    {"command_buffer_allocator", "memory_allocator",
     "vertex_buffer_allocator", "index_buffer_allocator"}
SurfaceObjects ==
    {"swapchain_image_views", "swapchain_images", "swapchain", "surface"}
Position(seq, object) == CHOOSE i \in DOMAIN seq : seq[i] = object
AllBefore(seq, first, second) ==
    \A a \in first, b \in second : Position(seq, a) < Position(seq, b)
\* Every object is destroyed once, and none while a live object refers to it.
NoUseAfterRelease(seq) ==
    /\ Len(seq) = Cardinality(Objects)
    /\ {seq[i] : i \in DOMAIN seq} = Objects
    /\ \A o \in Objects : \A k \in DOMAIN ArcsOf(o) :
          Position(seq, o) < Position(seq, ArcsOf(o)[k])

\* C15 (as claimed): handling CloseRequested releases pipeline and render
\* pass first, then the allocator, then swapchain and surface, then the
\* device, and nothing is released while a live object depends on it.
C15_TeardownOrder ==
    CloseHandled =>
        /\ Len(log) = 1 /\ log[1].op = "drop"
        /\ AllBefore(log[1].destroyed, PipelineObjects, AllocatorObjects)
        /\ AllBefore(log[1].destroyed, AllocatorObjects, SurfaceObjects)
        /\ AllBefore(log[1].destroyed, SurfaceObjects, {"device"})
        /\ NoUseAfterRelease(log[1].destroyed)

\* C15 (amended): handling CloseRequested drops the App, whose fields go in
\* declaration order: image views, images, swapchain and surface are
\* destroyed first, then the allocators, then pipeline, layout and render
\* pass, and the device after all of them; nothing is destroyed while a live
\* object refers to it.
C15_TeardownInDeclarationOrder ==
    CloseHandled =>
        /\ Len(log) = 1 /\ log[1].op = "drop"
        /\ AllBefore(log[1].destroyed, SurfaceObjects, AllocatorObjects)
        /\ AllBefore(log[1].destroyed, AllocatorObjects, PipelineObjects)
        /\ AllBefore(log[1].destroyed, PipelineObjects, {"device"})
        /\ NoUseAfterRelease(log[1].destroyed)
        /\ ~app_some

\* C15 witness: a CloseRequested was handled and the device was destroyed.
C15_Witness ==
    /\ CloseHandled
    /\ log # <<>>
    /\ \E i \in DOMAIN log[1].destroyed : log[1].destroyed[i] = "device"

\* C16 (as claimed): every RedrawRequested handled while the window is open
\* ends with the next redraw requested.
C16_EveryRedrawRequestsNext ==
    (RedrawHandled /\ status = "Running") => redraw_requested

\* C16 (amended): a handled RedrawRequested ends with the next redraw
\* requested exactly when draw_frame completed a frame; handled while
\* minimized, or with the frame skipped, it requests none and leaves
\* rendering suspended.
C16_CompletedFrameRequestsNext ==
    (RedrawHandled /\ status = "Running") =>
        /\ redraw_requested <=> last.draw_frame = "true"
        /\ last.draw_frame = "true" =>
              /\ ~minimized
              /\ log[Len(log)].op = "wait"
        /\ last.draw_frame # "true" => minimized

\* C16 witness: a completed frame requested the next redraw.
C16_Witness ==
    /\ RedrawHandled
    /\ last.draw_frame = "true"
    /\ redraw_requested

\* draw_frame returned false: the frame was skipped.
FrameSkipped == RedrawHandled /\ last.draw_frame = "false"

\* C17: a completed frame makes exactly one acquisition that returns a token,
\* allocates one vertex buffer holding the 4 vertices and one index buffer
\* holding the 6 indices, records one command buffer with one indexed draw of
\* index_count 6 (the length of the index sequence) over those two buffers,
\* submits once and presents once; a skipped frame allocates, records,
\* submits and presents nothing.
C17_FrameContents ==
    /\ FrameCompleted =>
          /\ Cardinality({a \in Acquisitions :
                            log[a].returned /\ log[a].ret.some}) = 1
          /\ Cardinality(Calls("alloc_vertex_buffer")) = 1
          /\ Cardinality(Calls("alloc_index_buffer")) = 1
          /\ Cardinality(Calls("record_command_buffer")) = 1
          /\ Cardinality(Calls("execute_command_buffer")) = 1
          /\ Cardinality(Calls("present_image")) = 1
          /\ \A v \in Calls("alloc_vertex_buffer") :
                /\ log[v].buffer.len = 4
                /\ log[v].buffer.contents = vertices
          /\ \A x \in Calls("alloc_index_buffer") :
                /\ log[x].buffer.len = 6
                /\ log[x].buffer.contents = <<0, 1, 2, 2, 1, 3>>
          /\ \A r \in Calls("record_command_buffer") :
                LET cmds == log[r].command_buffer.commands
                    draws == {k \in DOMAIN cmds : cmds[k].cmd = "draw_indexed"}
                IN /\ Cardinality(draws) = 1
                   /\ \A k \in draws :
                         /\ cmds[k].index_count = 6
                         /\ cmds[k].index_count = Len(indices)
                         /\ cmds[k].instance_count = 1
                   /\ \A k \in DOMAIN cmds :
                         /\ cmds[k].cmd = "bind_vertex_buffers" =>
                               \E v \in Calls("alloc_vertex_buffer") :
                                   cmds[k].buffer = log[v].buffer
                         /\ cmds[k].cmd = "bind_index_buffer" =>
                               \E x \in Calls("alloc_index_buffer") :
                                   cmds[k].buffer = log[x].buffer
          /\ \A x \in Calls("execute_command_buffer") :
                \E r \in Calls("record_command_buffer") :
                    log[x].future.command_buffer = log[r].command_buffer
    /\ (RedrawHandled /\ \A a \in Acquisitions :
                             ~(log[a].returned /\ log[a].ret.some))
          => FrameWork = {}
    /\ FrameSkipped => FrameWork = {}

\* C17 witness: the first frame after the window opened was completed.
C17_Witness ==
    /\ FrameCompleted
    /\ last.resized = "none"
    /\ Cardinality(Acquisitions) = 1

\* What the claim compares of a swapchain: image count, format and extent.
SwapchainShape(fw) ==
    [image_count |-> Len(fw.swapchain_images),
     image_format |-> fw.swapchain.create_info.image_format,
     image_extent |-> fw.swapchain.create_info.image_extent]

\* C18: recreating the swapchain at the extent it already has changes neither
\* its image count nor its format nor its extent (nor any other creation
\* parameter), and recreating a second time gives what recreating once gave.
C18_RecreateSameExtentIdempotent ==
    /\ \A i \in Recreations :
          (log[i].ret /\ SwapchainExtent(last.framework) = log[i].extent) =>
              /\ SwapchainShape(framework) = SwapchainShape(last.framework)
              /\ framework.swapchain.create_info =
                    last.framework.swapchain.create_info
    /\ app_some =>
          LET once == recreate_swapchain(framework, SwapchainExtent(framework))
              twice == recreate_swapchain(once.framework,
                                          SwapchainExtent(framework))
          IN /\ once.ret /\ twice.ret
             /\ SwapchainShape(once.framework) = SwapchainShape(framework)
             /\ SwapchainShape(twice.framework) = SwapchainShape(once.framework)
             /\ twice.framework.swapchain.create_info =
                   once.framework.swapchain.create_info
             /\ [i \in DOMAIN twice.framework.swapchain_image_views |->
                    twice.framework.swapchain_image_views[i].format] =
                [i \in DOMAIN once.framework.swapchain_image_views |->
                    once.framework.swapchain_image_views[i].format]

\* C18 witness: a callback recreated the swapchain while the drawable extent
\* was the extent the swapchain already had.
C18_Witness ==
    /\ \E i \in Recreations :
          log[i].ret /\ SwapchainExtent(last.framework) = log[i].extent
    /\ last.app_some
    /\ framework.swapchain.id # last.framework.swapchain.id

\* The last step handled a RedrawRequested, the first since a Resized event of
\* nonzero extent was handled while minimized.
RedrawAfterRestore == RedrawHandled /\ last.restored

\* C19 (as claimed): a Resized event of nonzero extent handled while minimized
\* clears minimized, and the next RedrawRequested makes exactly one
\* acquisition, no recreation, and one full frame.
C19_RedrawAfterRestoreDraws ==
    /\ (ResizedHandled /\ last.minimized /\ last.width # 0 /\ last.height # 0)
          => ~minimized
    /\ RedrawAfterRestore =>
          /\ ~last.minimized
          /\ Acquisitions = {1}
          /\ Recreations = {}
          /\ last.draw_frame = "true"
          /\ Cardinality(Calls("record_command_buffer")) = 1
          /\ Cardinality(Calls("execute_command_buffer")) = 1
          /\ Cardinality(Calls("present_image")) = 1

\* C19 (amended): a Resized event of nonzero extent handled while minimized
\* clears minimized and, when no later resize of the window is waiting to be
\* delivered, recreates the swapchain at the window's extent.  The next
\* RedrawRequested calls draw_frame, which makes exactly one acquisition, no
\* recreation, and one full frame when the device hands out the image without
\* a report and the frame's submissions and wait succeed.  When the device
\* reports the acquisition suboptimal there is one recreation, and the frame
\* follows a second acquisition or is skipped with rendering suspended; when
\* a device call fails the process panics; when no image is free the
\* acquisition does not return.
C19_RedrawAfterRestoreOutcomes ==
    /\ (ResizedHandled /\ last.minimized /\ last.width # 0 /\ last.height # 0)
          => /\ ~minimized
             /\ Cardinality(Recreations) = 1
             /\ last.in_sync =>
                   /\ Recreated
                   /\ SwapchainExtent(framework) = <<last.width, last.height>>
                   /\ SwapchainExtent(framework) = last.extent
    /\ RedrawAfterRestore =>
          /\ ~last.minimized
          /\ 1 \in Acquisitions
          /\ (Unflagged(1) /\ ~DeviceFailed) =>
                /\ PresentedAtOnce
                /\ Cardinality(Calls("record_command_buffer")) = 1
                /\ Cardinality(Calls("execute_command_buffer")) = 1
                /\ Cardinality(Calls("present_image")) = 1
          /\ (Flagged(1) /\ ~DeviceFailed) =>
                \/ PresentedAfterRecreation
                \/ SkippedAndSuspended
                \/ BlockedOnAcquire
          /\ DeviceFailed => status = "Panicked"
          /\ log[1].device.res = "Blocked" => BlockedOnAcquire

\* C19 witness: the first redraw after the window came back from a zero
\* extent, with no resize waiting, completed a frame after one acquisition.
C19_Witness ==
    /\ RedrawAfterRestore
    /\ last.in_sync
    /\ PresentedAtOnce

\* C20: the image count asked of the first swapchain stays inside the surface
\* capabilities: never above max_image_count when a maximum is reported, and
\* at least min_image_count + 1 where the maximum allows it.
C20_ImageCountWithinCapabilities ==
    \A n \in Calls("new_swapchain") :
        LET caps == log[n].capabilities
            count == log[n].create_info.min_image_count
        IN /\ count = image_count(caps)
           /\ count >= caps.min_image_count
           /\ caps.max_image_count # 0 => count <= caps.max_image_count
           /\ (caps.max_image_count = 0
                 \/ caps.min_image_count + 1 <= caps.max_image_count)
                 => count >= caps.min_image_count + 1

\* Inputs on which the allocator operations are compared with their contract.
MaxInputLen == 2
RECURSIVE SeqsUpTo(_, _)
SeqsUpTo(S, n) ==
    IF n = 0 THEN {<<>>}
    ELSE SeqsUpTo(S, n - 1) \cup
         {Append(q, x) : q \in {t \in SeqsUpTo(S, n - 1) : Len(t) = n - 1},
                         x \in S}
\* Two buffers share memory.
Overlap(a, b) ==
    /\ a.allocator = b.allocator
    /\ a.arena = b.arena
    /\ a.offset < b.offset + b.len
    /\ b.offset < a.offset + a.len
AllocCalls == Calls("alloc_vertex_buffer") \cup Calls("alloc_index_buffer")

\* The inputs the allocation functions are tried on: the sequences the
\* program passes, and the shorter non-empty ones.
VertexInputs ==
    {vertices} \cup
    (SeqsUpTo({vertices[1], vertices[2]}, MaxInputLen) \ {<<>>})
IndexInputs == {indices} \cup (SeqsUpTo({0, 1}, MaxInputLen) \ {<<>>})

\* The allocation `a` returned a buffer of the elements of `q`.
BufferOf(a, q) ==
    /\ ~a.panic
    /\ a.buffer.len = Len(q)
    /\ a.buffer.contents = q

\* C21: alloc_vertex_buffer and alloc_index_buffer return on every call, for
\* the sequences the program passes and for every other non-empty input,
\* from every state the allocators reach, a buffer of as many elements as the
\* input holding the input's elements in order; a buffer allocated while
\* another is alive shares no memory with it, so the buffers a callback
\* allocates are disjoint, and they are allocated while no earlier frame is
\* still in flight.
C21_FreshBufferOfInput ==
    /\ app_some =>
          /\ \A q \in VertexInputs :
                BufferOf(alloc_vertex_buffer(allocator, {}, q), q)
          /\ \A q \in IndexInputs :
                BufferOf(alloc_index_buffer(allocator, {}, q), q)
          /\ \A p \in VertexInputs, q \in VertexInputs :
                LET first == alloc_vertex_buffer(allocator, {}, p)
                    second == alloc_vertex_buffer(first.allocator,
                                                  {first.buffer}, q)
                IN ~Overlap(first.buffer, second.buffer)
          /\ \A p \in IndexInputs, q \in IndexInputs :
                LET first == alloc_index_buffer(allocator, {}, p)
                    second == alloc_index_buffer(first.allocator,
                                                 {first.buffer}, q)
                IN ~Overlap(first.buffer, second.buffer)
    /\ \A v \in Calls("alloc_vertex_buffer") :
          /\ log[v].buffer.len = Len(vertices)
          /\ log[v].buffer.contents = vertices
    /\ \A x \in Calls("alloc_index_buffer") :
          /\ log[x].buffer.len = Len(indices)
          /\ log[x].buffer.contents = indices
    /\ \A i, j \in AllocCalls :
          i # j => ~Overlap(log[i].buffer, log[j].buffer)
    /\ AllocCalls # {} => last.in_flight = {}

\* C21 witness: a frame allocated its buffers behind those of the frame
\* before, in the arenas that frame had opened.
C21_Witness ==
    /\ \E v \in Calls("alloc_vertex_buffer") : log[v].buffer.offset > 0
    /\ \E x \in Calls("alloc_index_buffer") : log[x].buffer.offset > 0
    /\ \A i \in AllocCalls : log[i].buffer.len > 0

\* The names of the commands of a command buffer, in order.
CommandNames(command_buffer) ==
    [k \in DOMAIN command_buffer.commands |-> command_buffer.commands[k].cmd]

\* The command sequence the claim gives for a recording into `output` with
\* the given buffers and index count.
ClaimedCommands(cb, vertex_buffer, index_buffer, index_count, output) ==
    LET extent == <<output.image.extent[1], output.image.extent[2]>>
        c == cb.commands
    IN /\ CommandNames(cb) =
             <<"begin_render_pass", "bind_pipeline_graphics", "set_viewport",
               "bind_vertex_buffers", "bind_index_buffer", "draw_indexed",
               "end_render_pass">>
       /\ c[1].render_area_extent = extent
       /\ c[1].attachments = <<output>>
       /\ Len(c[1].clear_values) = 1
       /\ c[3].first_viewport = 0
       /\ c[3].offset = <<0, 0>>
       /\ c[3].extent = extent
       /\ c[4].first_binding = 0
       /\ c[4].buffer = vertex_buffer
       /\ c[5].buffer = index_buffer
       /\ c[6].index_count = index_count
       /\ c[6].instance_count = 1
       /\ c[6].first_index = 0
       /\ c[6].vertex_offset = 0
       /\ c[6].first_instance = 0

\* C22: record_command_buffer records exactly: begin render pass over the
\* full extent of the target view with one clear value, bind the graphics
\* pipeline, set viewport 0 to the full extent, bind the vertex buffer at
\* binding 0, bind the index buffer, one indexed draw of the given index
\* count (1 instance, offsets 0), end render pass; for the recording of every
\* frame and for every index count and target view of the swapchain.
C22_RecordedCommands ==
    /\ \A r \in Calls("record_command_buffer") :
          \E v \in Calls("alloc_vertex_buffer"),
             x \in Calls("alloc_index_buffer") :
              ClaimedCommands(log[r].command_buffer, log[v].buffer,
                              log[x].buffer, Len(indices),
                              log[r].command_buffer.output)
    /\ app_some =>
          \A n \in 0..MaxInputLen :
              \A k \in DOMAIN framework.swapchain_image_views :
                  LET vb == alloc_vertex_buffer(allocator, {}, vertices).buffer
                      ib == alloc_index_buffer(allocator, {vb}, indices).buffer
                      view == framework.swapchain_image_views[k]
                  IN ClaimedCommands(
                         record_command_buffer(renderer, vb, ib, n, view),
                         vb, ib, n, view)

\* C22 witness: a frame was recorded against a view wider than 1.
C22_Witness ==
    \E r \in Calls("record_command_buffer") :
        log[r].command_buffer.output.image.extent[1] > 1

\* C23: in a frame, the view recorded against and the swapchain presented on
\* belong to the swapchain the frame's image index was acquired from, which
\* is the current one: no recreation comes between the acquisition that
\* returned the token and the presentation, and the index selects an existing
\* view of the current swapchain, the view of the image of that index.
C23_FrameOnAcquiredSwapchain ==
    \A p \in Calls("present_image") :
        \E a \in Acquisitions :
            /\ a < p
            /\ log[a].returned /\ log[a].ret.some
            /\ \A c \in Recreations : c < a
            /\ log[a].swapchain = framework.swapchain.id
            /\ log[p].future.swapchain = log[a].swapchain
            /\ log[p].future.image_index = log[a].ret.image_index
            /\ log[a].ret.image_index + 1 \in
                  DOMAIN framework.swapchain_image_views
            /\ \A r \in Calls("record_command_buffer") :
                  /\ a < r /\ r < p
                  /\ log[r].command_buffer.output =
                        framework.swapchain_image_views[
                            log[a].ret.image_index + 1]
                  /\ log[r].command_buffer.output.image.swapchain =
                        log[a].swapchain
                  /\ log[r].command_buffer.output.image.index =
                        log[a].ret.image_index

\* C23 witness: a frame was presented after the swapchain was recreated in the
\* same callback.
C23_Witness ==
    /\ Calls("present_image") # {}
    /\ Recreated
    /\ framework.swapchain.id # last.framework.swapchain.id

\* The images and the views of `fw` are those of its swapchain: one image per
\* index, made with the swapchain's parameters, and one view per image in the
\* order of the images.
DerivedFromSwapchain(fw) ==
    /\ Len(fw.swapchain_images) = fw.swapchain.create_info.min_image_count
    /\ Len(fw.swapchain_image_views) = Len(fw.swapchain_images)
    /\ \A i \in DOMAIN fw.swapchain_images :
          /\ fw.swapchain_images[i].swapchain = fw.swapchain.id
          /\ fw.swapchain_images[i].index = i - 1
          /\ fw.swapchain_images[i].format =
                fw.swapchain.create_info.image_format
          /\ fw.swapchain_images[i].extent =
                <<fw.swapchain.create_info.image_extent[1],
                  fw.swapchain.create_info.image_extent[2], 1>>
          /\ fw.swapchain_image_views[i].image = fw.swapchain_images[i]
          /\ fw.swapchain_image_views[i].format =
                fw.swapchain.create_info.image_format

\* C24: between callbacks swapchain_image_views holds one view per image of
\* the current swapchain in the order of swapchain_images, and both lists come
\* from the current swapchain; a callback replaces swapchain, swapchain_images
\* and swapchain_image_views all three or none of them.
C24_ViewsMatchSwapchain ==
    /\ app_some => DerivedFromSwapchain(framework)
    /\ (last.app_some /\ app_some) =>
          /\ (framework.swapchain = last.framework.swapchain)
                <=> (framework.swapchain_images =
                        last.framework.swapchain_images)
          /\ (framework.swapchain = last.framework.swapchain)
                <=> (framework.swapchain_image_views =
                        last.framework.swapchain_image_views)
          /\ (framework.swapchain # last.framework.swapchain) <=> Recreated

\* C24 witness: a callback replaced the swapchain of the App.
C24_Witness ==
    /\ last.app_some /\ app_some
    /\ Recreated
    /\ framework.swapchain # last.framework.swapchain
    /\ Len(framework.swapchain_image_views) > 1

\* The recreations of the step that replaced the swapchain.
Replacements == {i \in Recreations : log[i].ret}

\* C25: swapchain, swapchain_images and swapchain_image_views are written by
\* Framework::new and by recreate_swapchain only: a callback that made no
\* successful recreate_swapchain leaves all three as they were, whatever it
\* acquired, allocated, recorded, executed and presented; a frame's
\* record_command_buffer and present_image read the fields as the callback
\* leaves them; and an App comes into being only in resumed.
C25_OnlyNewAndRecreateWrite ==
    /\ (last.app_some /\ app_some) =>
          /\ Cardinality(Replacements) <= 1
          /\ Replacements = {} => framework = last.framework
          /\ Replacements # {} =>
                framework.swapchain.id =
                    NewHandle(last.framework.swapchain.id)
          /\ \A i \in Recreations : \A j \in Calls("record_command_buffer") :
                i < j
          /\ \A j \in Calls("record_command_buffer") :
                \E k \in DOMAIN framework.swapchain_image_views :
                    log[j].command_buffer.output =
                        framework.swapchain_image_views[k]
          /\ \A j \in Calls("present_image") :
                log[j].future.swapchain = framework.swapchain.id
    /\ (app_some /\ ~last.app_some /\ last.event # "none") =>
          /\ last.event = "resumed"
          /\ \E i \in Calls("new_swapchain") : log[i].ok

\* C25 witness: a frame was acquired, recorded, executed and presented with no
\* recreation, and the three fields are what they were.
C25_Witness ==
    /\ FrameCompleted
    /\ Recreations = {}
    /\ Acquisitions # {}
    /\ AllocCalls # {}
    /\ Calls("record_command_buffer") # {}
    /\ Calls("execute_command_buffer") # {}
    /\ Calls("present_image") # {}
    /\ framework = last.framework

\* C26: the pipeline layout, the render pass and the graphics pipeline are
\* made once, by App::new: no callback that starts and ends with an App
\* changes the renderer, whether it recreated the swapchain or not; in every
\* state the colour format of the render pass is the image format of the
\* current swapchain, and every recorded render pass is begun on a view of
\* that format.
C26_RendererStaysValid ==
    /\ app_some =>
          renderer.render_pass_format =
              framework.swapchain.create_info.image_format
    /\ (last.app_some /\ app_some) => renderer = last.renderer
    /\ \A j \in Calls("record_command_buffer") :
          LET begin == log[j].command_buffer.commands[1]
          IN /\ begin.cmd = "begin_render_pass"
             /\ begin.render_pass_format = renderer.render_pass_format
             /\ \A k \in DOMAIN begin.attachments :
                   begin.attachments[k].format = begin.render_pass_format

\* C26 witness: a frame was recorded on a swapchain that the callback had
\* recreated, of a format that is not the preferred one.
C26_Witness ==
    /\ FrameCompleted
    /\ Recreated
    /\ framework.swapchain # last.framework.swapchain
    /\ renderer = last.renderer
    /\ renderer.render_pass_format = "B8G8R8A8_UNORM"

\* A Resized or RedrawRequested was handled while OptionApp held no App.
HandledWithoutApp ==
    /\ last.event \in {"Resized", "RedrawRequested"}
    /\ ~last.app_some

\* C27: a Resized or RedrawRequested event handled while there is no App
\* (after CloseRequested was handled) makes no GPU call and does not panic.
C27_NoUseOutsideLifetime ==
    HandledWithoutApp => (log = <<>> /\ gpu_order = <<>> /\ status = "Running")

\* A callback started and ended with the App in place.
AppKept == last.app_some /\ app_some

\* C28: `minimized` goes from false to true only in a Resized with a zero
\* dimension or in a RedrawRequested whose draw_frame returned false, and
\* from true to false only in a Resized with both dimensions nonzero; a
\* skipped frame leaves it true, and a RedrawRequested handled while it is
\* true makes no call, renders nothing, requests no redraw and leaves it
\* true, whatever the extent of the drawable is.
C28_MinimizedLatch ==
    /\ (AppKept /\ ~last.minimized /\ minimized) =>
          \/ /\ last.event = "Resized"
             /\ (last.width = 0 \/ last.height = 0)
          \/ /\ last.event = "RedrawRequested"
             /\ last.draw_frame = "false"
    /\ (AppKept /\ last.minimized /\ ~minimized) =>
          /\ last.event = "Resized"
          /\ last.width # 0 /\ last.height # 0
    /\ FrameSkipped => minimized
    /\ (RedrawHandled /\ last.minimized) =>
          /\ minimized
          /\ status = "Running"
          /\ last.draw_frame = "not_called"
          /\ log = <<>> /\ gpu_order = <<>>
          /\ framework = last.framework
          /\ ~redraw_requested

\* C28 witness: rendering was suspended by a skipped frame, not by a Resized
\* of zero extent, and a RedrawRequested handled afterwards rendered nothing
\* although the drawable has a nonzero extent.
C28_Witness ==
    /\ RedrawHandled /\ last.minimized /\ minimized
    /\ last_resized # "zero"
    /\ ~IsZeroExtent(drawable)
    /\ log = <<>>

\* CloseRequested has been handled: resumed made an App and the App is gone.
Closed == started /\ ~app_some /\ last.event # "resumed"

\* C29: the App goes away in the CloseRequested arm only; once it is gone it
\* stays gone, no callback acquires, records, submits or presents anything,
\* and an about_to_wait that runs requests the exit of the event loop; the
\* exit is requested by about_to_wait only, and never while the App is there.
C29_ClosedForGood ==
    [][/\ (app_some /\ ~app_some') =>
              (last'.event = "CloseRequested" /\ Closed')
       /\ Closed =>
              /\ Closed'
              /\ (Acquisitions \cup FrameWork)' = {}
              /\ gpu_order' = <<>>
              /\ acquired' = {} /\ in_flight' = {}
              /\ framework' = NoFramework
              /\ last'.event = "about_to_wait" => status' = "Exited"
       /\ (status # "Exited" /\ status' = "Exited") =>
              /\ ~app_some
              /\ last'.event = "about_to_wait"
              /\ pending' = pending
      ]_vars

\* C29 witness: the App was closed and the about_to_wait that followed asked
\* the event loop to exit.
C29_Witness ==
    /\ Closed
    /\ last.event = "about_to_wait"
    /\ status = "Exited"

====
